---- MODULE Spec2Model ----
(***************************************************************************)
(* Asynchronous upload orchestration of the Google Drive upload API:       *)
(* POST /upload, its detached background task with the progress stream,    *)
(* GET /upload/progress/:uploadId and the in-memory progress store.        *)
(*                                                                         *)
(* Node runs every handler and every continuation to completion.  The      *)
(* variable `running` names the upload whose synchronous continuation is   *)
(* still to run in the current turn; while it is not 0 no other callback   *)
(* is scheduled.                                                           *)
(*                                                                         *)
(* Spec runs MaxUploads single uploads and the polls against them.         *)
(* BulkSpec runs one POST /upload-multiple request of up to MaxBulkFiles   *)
(* files, with one single upload beside it that fills the progress store.  *)
(***************************************************************************)
EXTENDS Integers, Sequences, FiniteSets, TLC

\* ---------------------------------------------------------------- bounds
MaxUploads == 2
MaxTime == 1
MaxRandom == 1
MaxFileSize == 3
MaxBulkFiles == 3

Uploads == 1..MaxUploads
FileSizes == 0..MaxFileSize
BulkFiles == 1..MaxBulkFiles

\* ------------------------------------------------------------- constants
Absent == "absent"
DriveFileIds == {"driveId"}
ErrorMessages == {"network fault"}
ENOENT == "ENOENT: no such file or directory"

\* a property name every plain object inherits from Object.prototype
ObjectPrototypeKeys == {"constructor"}

VARIABLES
  authenticated,      \* oauth2Client.credentials.refresh_token is set
  uploadProgressMap,  \* own properties of the progress store
  pc,                 \* position of each POST /upload request and its task
  file,               \* req.file of each request: whether it is set, and its size
  tempFiles,          \* requests whose multer temp file exists on disk
  uploadId,           \* the uploadId local of each accepted request
  response,           \* what res.json / res.status().json sent for each request
  transferred,        \* bytes that went through each progress stream
  ended,              \* progress streams that were flushed
  settled,            \* what drive.files.create resolved or rejected with
  createCalls,        \* number of drive.files.create calls per request
  unlinkCalls,        \* number of fs.unlinkSync calls per request
  running,            \* upload whose continuation runs next in this turn, or 0
  lastPoll,           \* the latest answer of GET /upload/progress/:uploadId
  bulkPc,             \* position of the POST /upload-multiple request
  bulkFiles,          \* req.files.length of that request
  bulkTemp,           \* its files whose multer temp file exists on disk
  filePc,             \* position of the upload promise of each of its files
  bulkSettled,        \* what uploadToGoogleDriveOAuth resolved or rejected with
  results,            \* the value each upload promise was fulfilled with
  bulkCreateCalls,    \* number of drive.files.create calls per file
  bulkUnlinkCalls,    \* number of fs.unlinkSync calls per file
  bulkResponse        \* what the bulk request was answered with

\* the state of POST /upload-multiple
bulkVars == <<bulkPc, bulkFiles, bulkTemp, filePc, bulkSettled, results,
              bulkCreateCalls, bulkUnlinkCalls, bulkResponse>>

\* the state of POST /upload, its tasks and the progress store
uploadVars == <<uploadProgressMap, pc, file, tempFiles, uploadId, response,
                transferred, ended, settled, createCalls, unlinkCalls, running,
                lastPoll>>

vars == <<authenticated, uploadVars, bulkVars>>

\* ------------------------------------------------------------ pure parts

\* 'upload_' + Date.now() + '_' + Math.random().toString(36).substr(2, 9)
\* `time` is the value Date.now() returned and `random` stands for the suffix
\* Math.random() gave; neither is checked against the keys already in use.
generateUploadId(time, random) ==
  "upload_" \o ToString(time) \o "_" \o ToString(random)

\* values of Date.now() and of the random suffix
Times == 0..MaxTime
Randoms == 1..MaxRandom

UploadIds == {generateUploadId(t, r) : t \in Times, r \in Randoms}

PollKeys == UploadIds \cup ObjectPrototypeKeys \cup {"upload_unknown"}

\* Math.round of the non-negative quotient num / den
MathRound(num, den) == (2 * num + den) \div (2 * den)

RoundedPercentage_PerMille(bytes, length, flushed) ==
  IF flushed THEN 1000
  ELSE IF length # 0 THEN MathRound(bytes * 1000, length)
  ELSE 0

\* update.percentage of progress-stream, rounded by the 'progress' listener
RoundedPercentage(bytes, length, flushed) ==
  IF flushed THEN 100
  ELSE IF length # 0 THEN MathRound(bytes * 100, length)
  ELSE 0

\* uploadProgressMap[key] is truthy: an own record or an inherited property
Truthy(map, key) == key \in DOMAIN map \/ key \in ObjectPrototypeKeys

\* uploadProgressMap[key] = record
Put(map, key, record) == (key :> record) @@ map

PendingRecord == [status |-> "pending", progress |-> 0, file |-> Absent, error |-> Absent]

CreateRecord_ByTask(map, id) == map

\* uploadProgressMap[uploadId] = { progress: 0, status: 'pending' }
CreateRecord(map, id) == Put(map, id, PendingRecord)

DoneRecord_NoResult(data) ==
  [status |-> "done", progress |-> 100, file |-> Absent, error |-> Absent]

\* { status: 'done', progress: 100, file: { id: driveFile.data.id, ... } }
DoneRecord(data) ==
  [status |-> "done", progress |-> 100, file |-> data, error |-> Absent]

ErrorRecord_ResetsProgress(old, message) ==
  [status |-> "error", progress |-> 0, file |-> Absent, error |-> message]

ErrorRecord_NoMessage(old, message) ==
  [status |-> "error",
   progress |-> IF old.progress # 0 THEN old.progress ELSE 0,
   file |-> Absent,
   error |-> Absent]

\* { status: 'error', progress: uploadProgressMap[uploadId].progress || 0,
\*   error: error.message }
ErrorRecord(old, message) ==
  [status |-> "error",
   progress |-> IF old.progress # 0 THEN old.progress ELSE 0,
   file |-> Absent,
   error |-> message]

isAuthenticated_Always == TRUE

\* oauth2Client.credentials && oauth2Client.credentials.refresh_token
isAuthenticated == authenticated

\* req.file: undefined, or the file multer stored
NoFile == [present |-> FALSE, size |-> 0]
StoredFile(size) == [present |-> TRUE, size |-> size]
RequestFiles == {NoFile, StoredFile(MaxFileSize)}

\* ids handed out by accepted submissions so far
ReturnedIds == {response[s].uploadId : s \in {u \in Uploads : response[u].code = 200}}

NoResponse == [code |-> 0, uploadId |-> Absent, status |-> Absent, progress |-> 0]
NoPoll == [key |-> Absent, known |-> FALSE, code |-> 0, status |-> Absent]

AcceptedResponse_AfterTask(id) == NoResponse

\* res.json({ success: true, uploadId, status: 'pending', progress: 0, message })
AcceptedResponse(id) ==
  [code |-> 200, uploadId |-> id, status |-> "pending", progress |-> 0]

\* --------------------------------------------- pure parts of the bulk path

\* what an upload promise of POST /upload-multiple is fulfilled with
NoResult == [success |-> FALSE, file |-> Absent, error |-> Absent]
SuccessResult(data) == [success |-> TRUE, file |-> data, error |-> Absent]
FailureResult(message) == [success |-> FALSE, file |-> Absent, error |-> message]

IsSuccess(r) == r.success
IsFailure(r) == ~r.success

\* the answers of POST /upload-multiple
NoBulkResponse ==
  [code |-> 0, aggregate |-> FALSE, success |-> FALSE, successful |-> <<>>, failed |-> <<>>]
BulkErrorResponse(code) == [NoBulkResponse EXCEPT !.code = code]

\* results.filter(r => r.success), results.filter(r => !r.success) and
\* res.json({ success: failed.length === 0, message, results })
Aggregate(res, n) ==
  LET all == [f \in 1..n |-> res[f]]
      successful == SelectSeq(all, IsSuccess)
      failed == SelectSeq(all, IsFailure)
  IN [code |-> 200, aggregate |-> TRUE, success |-> Len(failed) = 0,
      successful |-> successful, failed |-> failed]

FileCatch_Rethrows(exists, message, unlinked) ==
  [pc |-> "thrown", result |-> FailureResult(message),
   unlinks |-> unlinked + (IF exists THEN 1 ELSE 0), removes |-> TRUE]

FileCatch_KeepsFile(exists, message, unlinked) ==
  [pc |-> "failed", result |-> FailureResult(message),
   unlinks |-> unlinked, removes |-> FALSE]

\* the catch block of one file: unlink the temp file if it exists and return
\* the failure; `unlinked` counts the unlink that threw
FileCatch(exists, message, unlinked) ==
  [pc |-> "failed", result |-> FailureResult(message),
   unlinks |-> unlinked + (IF exists THEN 1 ELSE 0), removes |-> TRUE]

\* after uploadToGoogleDriveOAuth returned: unlink the temp file and return
\* the success
FileTry(exists, data) ==
  IF exists
    THEN [pc |-> "ok", result |-> SuccessResult(data), unlinks |-> 1, removes |-> TRUE]
    ELSE FileCatch(FALSE, ENOENT, 1)

AnyFulfilled(pcs, n) == \E f \in 1..n : pcs[f] \in {"ok", "failed"}

\* Promise.all(uploadPromises) is fulfilled: every promise is
AllFulfilled(pcs, n) == \A f \in 1..n : pcs[f] \in {"ok", "failed"}

\* ------------------------------------------------------------------ Init
Init ==
  /\ authenticated \in BOOLEAN
  /\ uploadProgressMap = <<>>
  /\ pc = [s \in Uploads |-> "new"]
  /\ file = [s \in Uploads |-> NoFile]
  /\ tempFiles = {}
  /\ uploadId = [s \in Uploads |-> Absent]
  /\ response = [s \in Uploads |-> NoResponse]
  /\ transferred = [s \in Uploads |-> 0]
  /\ ended = {}
  /\ settled = [s \in Uploads |-> Absent]
  /\ createCalls = [s \in Uploads |-> 0]
  /\ unlinkCalls = [s \in Uploads |-> 0]
  /\ running = 0
  /\ lastPoll = NoPoll
  /\ bulkPc = "new"
  /\ bulkFiles = 0
  /\ bulkTemp = {}
  /\ filePc = [f \in BulkFiles |-> "idle"]
  /\ bulkSettled = [f \in BulkFiles |-> Absent]
  /\ results = [f \in BulkFiles |-> NoResult]
  /\ bulkCreateCalls = [f \in BulkFiles |-> 0]
  /\ bulkUnlinkCalls = [f \in BulkFiles |-> 0]
  /\ bulkResponse = NoBulkResponse

\* requests arrive in index order
Arrives(s) == pc[s] = "new" /\ running = 0 /\ \A u \in 1..(s - 1) : pc[u] # "new"

\* --------------------------------------------------------------- actions

\* GET /auth/callback: oauth2Client.setCredentials(tokens)
AuthCallback(hasRefreshToken) ==
  /\ running = 0
  /\ authenticated # hasRefreshToken
  /\ authenticated' = hasRefreshToken
  /\ UNCHANGED <<uploadProgressMap, pc, file, tempFiles, uploadId, response,
                 transferred, ended, settled, createCalls, unlinkCalls, running,
                 lastPoll>>
  /\ UNCHANGED bulkVars

\* POST /upload while not authenticated: 401
SubmitUnauthenticated(s, f) ==
  /\ Arrives(s)
  /\ ~isAuthenticated
  /\ file' = [file EXCEPT ![s] = f]
  /\ tempFiles' = IF f.present THEN tempFiles \cup {s} ELSE tempFiles
  /\ response' = [response EXCEPT ![s] = [NoResponse EXCEPT !.code = 401]]
  /\ pc' = [pc EXCEPT ![s] = "refused"]
  /\ UNCHANGED <<authenticated, uploadProgressMap, uploadId, transferred, ended,
                 settled, createCalls, unlinkCalls, running, lastPoll>>
  /\ UNCHANGED bulkVars

\* POST /upload without a file part: 400
SubmitNoFile(s) ==
  /\ Arrives(s)
  /\ isAuthenticated
  /\ response' = [response EXCEPT ![s] = [NoResponse EXCEPT !.code = 400]]
  /\ pc' = [pc EXCEPT ![s] = "refused"]
  /\ UNCHANGED <<authenticated, uploadProgressMap, file, tempFiles, uploadId,
                 transferred, ended, settled, createCalls, unlinkCalls, running,
                 lastPoll>>
  /\ UNCHANGED bulkVars

SubmitAccepted_Yields(s, size, time, random) ==
  /\ Arrives(s)
  /\ isAuthenticated
  /\ file' = [file EXCEPT ![s] = StoredFile(size)]
  /\ tempFiles' = tempFiles \cup {s}
  /\ LET id == generateUploadId(time, random) IN
       /\ uploadId' = [uploadId EXCEPT ![s] = id]
       /\ uploadProgressMap' = CreateRecord(uploadProgressMap, id)
       /\ response' = [response EXCEPT ![s] = AcceptedResponse(id)]
  /\ pc' = [pc EXCEPT ![s] = "accepted"]
  /\ running' = 0
  /\ UNCHANGED <<authenticated, transferred, ended, settled, createCalls,
                 unlinkCalls, lastPoll>>
  /\ UNCHANGED bulkVars

\* POST /upload accepted: create the record, answer, then enter the task
SubmitAccepted(s, size, time, random) ==
  /\ Arrives(s)
  /\ isAuthenticated
  /\ file' = [file EXCEPT ![s] = StoredFile(size)]
  /\ tempFiles' = tempFiles \cup {s}
  /\ LET id == generateUploadId(time, random) IN
       /\ uploadId' = [uploadId EXCEPT ![s] = id]
       /\ uploadProgressMap' = CreateRecord(uploadProgressMap, id)
       /\ response' = [response EXCEPT ![s] = AcceptedResponse(id)]
  /\ pc' = [pc EXCEPT ![s] = "accepted"]
  /\ running' = s
  /\ UNCHANGED <<authenticated, transferred, ended, settled, createCalls,
                 unlinkCalls, lastPoll>>
  /\ UNCHANGED bulkVars

\* the detached task up to its await: in_progress, stream, drive.files.create
TaskStart(s) ==
  /\ running = s
  /\ pc[s] = "accepted"
  /\ uploadProgressMap' = [uploadProgressMap EXCEPT ![uploadId[s]].status = "in_progress"]
  /\ createCalls' = [createCalls EXCEPT ![s] = @ + 1]
  /\ pc' = [pc EXCEPT ![s] = "awaiting"]
  /\ running' = 0
  /\ UNCHANGED <<authenticated, file, tempFiles, uploadId, response, transferred,
                 ended, settled, unlinkCalls, lastPoll>>
  /\ UNCHANGED bulkVars

\* the stream of s is piped and not yet flushed; the pipe outlives a failed call
Streaming(s) == pc[s] \in {"awaiting", "failed"} /\ s \notin ended

\* progStream.on('progress'): uploadProgressMap[uploadId].progress = Math.round(p.percentage)
OnProgress(map, s, bytes, flushed) ==
  [map EXCEPT ![uploadId[s]].progress = RoundedPercentage(bytes, file[s].size, flushed)]

\* a chunk goes through the progress stream; the event is throttled by time
StreamWrite(s, emit) ==
  /\ running = 0
  /\ Streaming(s)
  /\ transferred[s] < file[s].size
  /\ transferred' = [transferred EXCEPT ![s] = @ + 1]
  /\ uploadProgressMap' =
       IF emit THEN OnProgress(uploadProgressMap, s, transferred[s] + 1, FALSE)
       ELSE uploadProgressMap
  /\ UNCHANGED <<authenticated, pc, file, tempFiles, uploadId, response, ended,
                 settled, createCalls, unlinkCalls, running, lastPoll>>
  /\ UNCHANGED bulkVars

\* the source ended: the stream is flushed and emits its last event
StreamEnd(s) ==
  /\ running = 0
  /\ Streaming(s)
  /\ transferred[s] = file[s].size
  /\ ended' = ended \cup {s}
  /\ uploadProgressMap' = OnProgress(uploadProgressMap, s, transferred[s], TRUE)
  /\ UNCHANGED <<authenticated, pc, file, tempFiles, uploadId, response,
                 transferred, settled, createCalls, unlinkCalls, running, lastPoll>>
  /\ UNCHANGED bulkVars

\* drive.files.create resolves once the whole body was sent
GatewayResolve(s, data) ==
  /\ running = 0
  /\ pc[s] = "awaiting"
  /\ s \in ended
  /\ settled' = [settled EXCEPT ![s] = data]
  /\ pc' = [pc EXCEPT ![s] = "resolved"]
  /\ running' = s
  /\ UNCHANGED <<authenticated, uploadProgressMap, file, tempFiles, uploadId,
                 response, transferred, ended, createCalls, unlinkCalls, lastPoll>>
  /\ UNCHANGED bulkVars

\* drive.files.create rejects at any point of the transfer
GatewayReject(s, message) ==
  /\ running = 0
  /\ pc[s] = "awaiting"
  /\ settled' = [settled EXCEPT ![s] = message]
  /\ pc' = [pc EXCEPT ![s] = "rejected"]
  /\ running' = s
  /\ UNCHANGED <<authenticated, uploadProgressMap, file, tempFiles, uploadId,
                 response, transferred, ended, createCalls, unlinkCalls, lastPoll>>
  /\ UNCHANGED bulkVars

CatchBlock_KeepsFile(s, message, unlinked) ==
  /\ unlinkCalls' = [unlinkCalls EXCEPT ![s] = @ + unlinked]
  /\ tempFiles' = tempFiles
  /\ uploadProgressMap' =
       Put(uploadProgressMap, uploadId[s],
           ErrorRecord(uploadProgressMap[uploadId[s]], message))
  /\ pc' = [pc EXCEPT ![s] = "failed"]

\* the catch block of the task: unlink the temp file if it exists, then
\* write the error record; `unlinked` counts the unlink that threw
CatchBlock(s, message, unlinked) ==
  /\ unlinkCalls' = [unlinkCalls EXCEPT ![s] = @ + unlinked + (IF s \in tempFiles THEN 1 ELSE 0)]
  /\ tempFiles' = tempFiles \ {s}
  /\ uploadProgressMap' =
       Put(uploadProgressMap, uploadId[s],
           ErrorRecord(uploadProgressMap[uploadId[s]], message))
  /\ pc' = [pc EXCEPT ![s] = "failed"]

\* after the await succeeded: unlink the temp file and write the done record
TaskSuccess(s) ==
  /\ running = s
  /\ pc[s] = "resolved"
  /\ IF s \in tempFiles
       THEN /\ unlinkCalls' = [unlinkCalls EXCEPT ![s] = @ + 1]
            /\ tempFiles' = tempFiles \ {s}
            /\ uploadProgressMap' = Put(uploadProgressMap, uploadId[s], DoneRecord(settled[s]))
            /\ pc' = [pc EXCEPT ![s] = "done"]
       ELSE CatchBlock(s, ENOENT, 1)
  /\ running' = 0
  /\ UNCHANGED <<authenticated, file, uploadId, response, transferred, ended,
                 settled, createCalls, lastPoll>>
  /\ UNCHANGED bulkVars

TaskFail_Retries(s) ==
  /\ running = s
  /\ pc[s] = "rejected"
  /\ createCalls' = [createCalls EXCEPT ![s] = @ + 1]
  /\ pc' = [pc EXCEPT ![s] = "awaiting"]
  /\ running' = 0
  /\ UNCHANGED <<authenticated, uploadProgressMap, file, tempFiles, uploadId, response,
                 transferred, ended, settled, unlinkCalls, lastPoll>>
  /\ UNCHANGED bulkVars

\* after the await failed
TaskFail(s) ==
  /\ running = s
  /\ pc[s] = "rejected"
  /\ CatchBlock(s, settled[s], 0)
  /\ running' = 0
  /\ UNCHANGED <<authenticated, file, uploadId, response, transferred, ended,
                 settled, createCalls, lastPoll>>
  /\ UNCHANGED bulkVars

\* GET /upload/progress/:uploadId
Poll(key) ==
  /\ running = 0
  /\ lastPoll' =
       IF ~Truthy(uploadProgressMap, key)
         THEN [key |-> key, known |-> key \in ReturnedIds, code |-> 404,
               status |-> Absent]
       ELSE IF key \in DOMAIN uploadProgressMap
         THEN [key |-> key, known |-> key \in ReturnedIds, code |-> 200,
               status |-> uploadProgressMap[key].status]
       ELSE [key |-> key, known |-> key \in ReturnedIds, code |-> 200,
             status |-> Absent]
  /\ UNCHANGED <<authenticated, uploadProgressMap, pc, file, tempFiles, uploadId,
                 response, transferred, ended, settled, createCalls, unlinkCalls,
                 running>>
  /\ UNCHANGED bulkVars

\* ------------------------------------------------- POST /upload-multiple

\* POST /upload-multiple while not authenticated: 401, multer stored n files
BulkSubmitUnauthenticated(n) ==
  /\ running = 0
  /\ bulkPc = "new"
  /\ ~isAuthenticated
  /\ bulkFiles' = n
  /\ bulkTemp' = 1..n
  /\ bulkResponse' = BulkErrorResponse(401)
  /\ bulkPc' = "refused"
  /\ UNCHANGED <<authenticated, uploadVars, filePc, bulkSettled, results,
                 bulkCreateCalls, bulkUnlinkCalls>>

\* POST /upload-multiple without files: 400
BulkSubmitNoFiles ==
  /\ running = 0
  /\ bulkPc = "new"
  /\ isAuthenticated
  /\ bulkResponse' = BulkErrorResponse(400)
  /\ bulkPc' = "refused"
  /\ UNCHANGED <<authenticated, uploadVars, bulkFiles, bulkTemp, filePc, bulkSettled,
                 results, bulkCreateCalls, bulkUnlinkCalls>>

\* POST /upload-multiple with n files: req.files.map calls
\* uploadToGoogleDriveOAuth for each, which awaits getAccessToken
BulkSubmitAccepted(n) ==
  /\ running = 0
  /\ bulkPc = "new"
  /\ isAuthenticated
  /\ n >= 1
  /\ bulkFiles' = n
  /\ bulkTemp' = 1..n
  /\ filePc' = [f \in BulkFiles |-> IF f <= n THEN "token" ELSE "idle"]
  /\ bulkPc' = "running"
  /\ UNCHANGED <<authenticated, uploadVars, bulkSettled, results, bulkCreateCalls,
                 bulkUnlinkCalls, bulkResponse>>

\* getAccessToken resolved for file f: drive.files.create is called
BulkTokenOk(f) ==
  /\ running = 0
  /\ filePc[f] = "token"
  /\ filePc' = [filePc EXCEPT ![f] = "creating"]
  /\ bulkCreateCalls' = [bulkCreateCalls EXCEPT ![f] = @ + 1]
  /\ UNCHANGED <<authenticated, uploadVars, bulkPc, bulkFiles, bulkTemp, bulkSettled,
                 results, bulkUnlinkCalls, bulkResponse>>

\* the promise of file f settles with `outcome`; then the handler, which
\* awaits Promise.all, goes on if it can: the aggregate once every promise
\* is fulfilled, the outer catch block as soon as one is rejected
FinishFile(f, value, outcome) ==
  LET pcs == [filePc EXCEPT ![f] = outcome.pc]
      res == [results EXCEPT ![f] = outcome.result]
      temp == IF outcome.removes THEN bulkTemp \ {f} ELSE bulkTemp
      unlinks == [bulkUnlinkCalls EXCEPT ![f] = @ + outcome.unlinks]
  IN /\ filePc' = pcs
     /\ results' = res
     /\ bulkSettled' = [bulkSettled EXCEPT ![f] = value]
     /\ IF bulkPc = "running" /\ outcome.pc = "thrown"
          THEN /\ bulkTemp' = {}
               /\ bulkUnlinkCalls' =
                    [g \in BulkFiles |-> unlinks[g] + (IF g \in temp THEN 1 ELSE 0)]
               /\ bulkResponse' = BulkErrorResponse(500)
               /\ bulkPc' = "responded"
        ELSE IF bulkPc = "running" /\ AllFulfilled(pcs, bulkFiles)
          THEN /\ bulkTemp' = temp
               /\ bulkUnlinkCalls' = unlinks
               /\ bulkResponse' = Aggregate(res, bulkFiles)
               /\ bulkPc' = "responded"
        ELSE /\ bulkTemp' = temp
             /\ bulkUnlinkCalls' = unlinks
             /\ UNCHANGED <<bulkResponse, bulkPc>>

\* getAccessToken rejected for file f: uploadToGoogleDriveOAuth rethrows
BulkTokenFail(f, message) ==
  /\ running = 0
  /\ filePc[f] = "token"
  /\ FinishFile(f, message, FileCatch(f \in bulkTemp, message, 0))
  /\ UNCHANGED <<authenticated, uploadVars, bulkFiles, bulkCreateCalls>>

\* drive.files.create resolved for file f
BulkCreateResolve(f, data) ==
  /\ running = 0
  /\ filePc[f] = "creating"
  /\ FinishFile(f, data, FileTry(f \in bulkTemp, data))
  /\ UNCHANGED <<authenticated, uploadVars, bulkFiles, bulkCreateCalls>>

\* drive.files.create rejected for file f: uploadToGoogleDriveOAuth rethrows
BulkCreateReject(f, message) ==
  /\ running = 0
  /\ filePc[f] = "creating"
  /\ FinishFile(f, message, FileCatch(f \in bulkTemp, message, 0))
  /\ UNCHANGED <<authenticated, uploadVars, bulkFiles, bulkCreateCalls>>

Next ==
  \/ \E b \in BOOLEAN : AuthCallback(b)
  \/ \E s \in Uploads, f \in RequestFiles : SubmitUnauthenticated(s, f)
  \/ \E s \in Uploads : SubmitNoFile(s)
  \/ \E s \in Uploads, size \in FileSizes, t \in Times, r \in Randoms :
       SubmitAccepted(s, size, t, r)
  \/ \E s \in Uploads : TaskStart(s)
  \/ \E s \in Uploads, emit \in BOOLEAN : StreamWrite(s, emit)
  \/ \E s \in Uploads : StreamEnd(s)
  \/ \E s \in Uploads, data \in DriveFileIds : GatewayResolve(s, data)
  \/ \E s \in Uploads, m \in ErrorMessages : GatewayReject(s, m)
  \/ \E s \in Uploads : TaskSuccess(s)
  \/ \E s \in Uploads : TaskFail(s)
  \/ \E k \in PollKeys : Poll(k)

Spec == Init /\ [][Next]_vars

\* the single uploads that run next to the bulk request in BulkSpec
SideUploads == {1}

\* POST /upload-multiple, with a single upload and its progress store beside it
BulkNext ==
  \/ \E b \in BOOLEAN : AuthCallback(b)
  \/ \E n \in 0..MaxBulkFiles : BulkSubmitUnauthenticated(n)
  \/ BulkSubmitNoFiles
  \/ \E n \in 1..MaxBulkFiles : BulkSubmitAccepted(n)
  \/ \E f \in BulkFiles : BulkTokenOk(f)
  \/ \E f \in BulkFiles, m \in ErrorMessages : BulkTokenFail(f, m)
  \/ \E f \in BulkFiles, data \in DriveFileIds : BulkCreateResolve(f, data)
  \/ \E f \in BulkFiles, m \in ErrorMessages : BulkCreateReject(f, m)
  \/ \E s \in SideUploads, size \in FileSizes, t \in Times, r \in Randoms :
       SubmitAccepted(s, size, t, r)
  \/ \E s \in SideUploads : TaskStart(s)
  \/ \E s \in SideUploads, emit \in BOOLEAN : StreamWrite(s, emit)
  \/ \E s \in SideUploads : StreamEnd(s)
  \/ \E s \in SideUploads, data \in DriveFileIds : GatewayResolve(s, data)
  \/ \E s \in SideUploads, m \in ErrorMessages : GatewayReject(s, m)
  \/ \E s \in SideUploads : TaskSuccess(s)
  \/ \E s \in SideUploads : TaskFail(s)

BulkSpec == Init /\ [][BulkNext]_vars

\* the continuations of a turn always run; stated for the liveness claims
FairSpec ==
  /\ Spec
  /\ \A s \in Uploads :
       /\ WF_vars(TaskStart(s))
       /\ WF_vars(TaskSuccess(s))
       /\ WF_vars(TaskFail(s))

\* ---------------------------------------------------------------- claims

Terminal == {"done", "error"}
Accepted(s) == response[s].code = 200
Record(s) == uploadProgressMap[uploadId[s]]

\* C1: the record of every returned uploadId is in the store from the moment
\* the response is sent, and no poll for an id that had been returned when
\* the poll was made answers 404.
C1_ReturnedIdAlwaysFound ==
  /\ \A s \in Uploads : Accepted(s) => response[s].uploadId \in DOMAIN uploadProgressMap
  /\ lastPoll.known => lastPoll.code # 404

C1_Witness ==
  \E s \in Uploads :
    /\ pc[s] \in {"done", "failed"}
    /\ lastPoll.known
    /\ lastPoll.key = uploadId[s]
    /\ lastPoll.code = 200
    /\ lastPoll.status \in Terminal

\* C2: the status of a record changes only pending -> in_progress,
\* in_progress -> done and in_progress -> error.
C2_StatusTransitions ==
  [][\A k \in DOMAIN uploadProgressMap :
       uploadProgressMap'[k].status # uploadProgressMap[k].status =>
         <<uploadProgressMap[k].status, uploadProgressMap'[k].status>> \in
           {<<"pending", "in_progress">>, <<"in_progress", "done">>,
            <<"in_progress", "error">>}]_vars

\* C3: a record that is done or error keeps every field (status, progress,
\* result, error message) under every later step of a task or of a progress
\* stream, the steps that leave it done or error.
C3_TerminalSticky ==
  [][\A k \in DOMAIN uploadProgressMap :
       (uploadProgressMap[k].status \in Terminal /\
        uploadProgressMap'[k].status \in Terminal) =>
         uploadProgressMap'[k] = uploadProgressMap[k]]_vars

\* C4: while a record is not terminal its progress never decreases.
C4_ProgressMonotone ==
  [][\A k \in DOMAIN uploadProgressMap :
       uploadProgressMap[k].status \notin Terminal =>
         uploadProgressMap'[k].progress >= uploadProgressMap[k].progress]_vars

\* C5: a done record has a result and no error message, an error record has
\* an error message and no result.
C5_ResultXorError ==
  \A k \in DOMAIN uploadProgressMap :
    /\ uploadProgressMap[k].status = "done" =>
         uploadProgressMap[k].file # Absent /\ uploadProgressMap[k].error = Absent
    /\ uploadProgressMap[k].status = "error" =>
         uploadProgressMap[k].error # Absent /\ uploadProgressMap[k].file = Absent

C5_Witness ==
  \E j, k \in DOMAIN uploadProgressMap :
    uploadProgressMap[j].status = "done" /\ uploadProgressMap[k].status = "error"

\* C6: whenever the record of an accepted submission is done or error, the
\* temp file of that submission does not exist.
C6_NoTempFileWhenTerminal ==
  \A s \in Uploads :
    (Accepted(s) /\ Record(s).status \in Terminal) => s \notin tempFiles

\* C7: an accepted submission is answered with status pending and progress 0,
\* and once its create-file call has succeeded its record reaches done with
\* progress 100 and the provider's id.
C7_SuccessReachesDone ==
  /\ [](\A s \in Uploads :
         Accepted(s) => response[s].status = "pending" /\ response[s].progress = 0)
  /\ \A s \in Uploads :
       (pc[s] = "resolved") ~>
         (/\ Accepted(s)
          /\ Record(s).status = "done"
          /\ Record(s).progress = 100
          /\ Record(s).file \in DriveFileIds)

C7_Witness ==
  \E s \in Uploads :
    /\ pc[s] = "done"
    /\ response[s].status = "pending"
    /\ Record(s).status = "done"
    /\ Record(s).progress = 100
    /\ Record(s).file \in DriveFileIds

\* C8: once the create-file call of an accepted submission has failed, its
\* record reaches error with an error message and its temp file is removed.
C8_FailureReachesError ==
  \A s \in Uploads :
    (pc[s] = "rejected") ~>
      (/\ Accepted(s)
       /\ Record(s).status = "error"
       /\ Record(s).error \in ErrorMessages
       /\ s \notin tempFiles)

C8_Witness ==
  \E s \in Uploads :
    /\ pc[s] = "failed"
    /\ transferred[s] > 0
    /\ Record(s).status = "error"
    /\ Record(s).error \in ErrorMessages
    /\ s \notin tempFiles

\* C9: a submission that arrives while the caller is not authenticated is
\* answered 401 in its own turn, changes no record, starts no task, makes no
\* gateway call and no unlink call, and its temp file stays on disk.
C9_UnauthenticatedRefused ==
  [][\A s \in Uploads :
       /\ (pc[s] = "new" /\ pc'[s] # "new" /\ ~authenticated) =>
            /\ response'[s].code = 401
            /\ pc'[s] = "refused"
            /\ running' = 0
            /\ uploadProgressMap' = uploadProgressMap
            /\ createCalls' = createCalls
            /\ unlinkCalls' = unlinkCalls
            /\ tempFiles \subseteq tempFiles'
       /\ response[s].code = 401 =>
            /\ pc'[s] = "refused"
            /\ createCalls'[s] = 0
            /\ unlinkCalls'[s] = 0
            /\ (s \in tempFiles => s \in tempFiles')]_vars

C9_Witness ==
  \E s \in Uploads :
    /\ response[s].code = 401
    /\ s \in tempFiles
    /\ \E u \in Uploads : pc[u] \in {"done", "failed"}

\* C10: a poll answers 200 exactly for the identifiers that an earlier
\* accepted submission returned, and 404 for every other identifier.
C10_PollFoundIffReturned ==
  lastPoll.code # 0 => (lastPoll.code = 200 <=> lastPoll.known)

\* C13: any two accepted submissions get different uploadIds, so no submission
\* writes its pending record over the record of another.
C13_UploadIdsUnique ==
  \A s, u \in Uploads :
    (s # u /\ Accepted(s) /\ Accepted(u)) => uploadId[s] # uploadId[u]

\* C14: when the detached task of a submission makes its first write to the
\* store (status in_progress), the response carrying its uploadId has already
\* been sent; no task is under way for a request that was not answered.
C14_ResponseBeforeFirstWrite ==
  [][\A s \in Uploads :
       /\ (pc[s] = "accepted" /\ pc'[s] # "accepted") =>
            /\ response[s].code = 200
            /\ response[s].uploadId = uploadId[s]
            /\ uploadProgressMap[uploadId[s]].status = "pending"
            /\ uploadProgressMap'[uploadId[s]].status = "in_progress"
       /\ pc[s] \in {"awaiting", "resolved", "rejected", "done", "failed"} =>
            response[s].code = 200]_vars

C14_Witness ==
  \E s \in Uploads :
    /\ pc[s] = "awaiting"
    /\ response[s].code = 200
    /\ response[s].uploadId = uploadId[s]
    /\ Record(s).status = "in_progress"

\* C15: the error record written when an upload fails carries the progress
\* the record held just before; it is not reset to 0.
C15_ErrorKeepsProgress ==
  [][\A s \in Uploads :
       (pc[s] = "rejected" /\ pc'[s] = "failed") =>
         /\ uploadProgressMap'[uploadId[s]].status = "error"
         /\ uploadProgressMap'[uploadId[s]].progress =
              uploadProgressMap[uploadId[s]].progress]_vars

C15_Witness ==
  \E s \in Uploads :
    /\ pc[s] = "failed"
    /\ s \notin ended
    /\ Record(s).status = "error"
    /\ Record(s).progress > 0
    /\ Record(s).progress < 100

\* C16: the task of an accepted submission unlinks its temp file exactly once:
\* not before the create-file call settled, once when the task has finished
\* on either path, and never a second time.
C16_TempFileUnlinkedOnce ==
  \A s \in Uploads :
    /\ unlinkCalls[s] <= 1
    /\ pc[s] \in {"accepted", "awaiting", "resolved", "rejected"} =>
         unlinkCalls[s] = 0 /\ s \in tempFiles
    /\ pc[s] \in {"done", "failed"} =>
         unlinkCalls[s] = 1 /\ s \notin tempFiles

C16_Witness ==
  \E s, u \in Uploads :
    /\ pc[s] = "done"
    /\ pc[u] = "failed"
    /\ unlinkCalls[s] = 1
    /\ unlinkCalls[u] = 1
    /\ tempFiles = {}

\* C17: drive.files.create is called at most once for each accepted
\* submission, whether the call succeeds or fails; there is no retry.
C17_CreateCalledAtMostOnce ==
  \A s \in Uploads :
    /\ createCalls[s] <= 1
    /\ pc[s] \in {"awaiting", "resolved", "rejected", "done", "failed"} =>
         createCalls[s] = 1
    /\ pc[s] \in {"new", "refused", "accepted"} => createCalls[s] = 0

C17_Witness ==
  \E s, u \in Uploads :
    /\ pc[s] = "done"
    /\ pc[u] = "failed"
    /\ createCalls[s] = 1
    /\ createCalls[u] = 1

\* a step of the task or of the progress stream of upload s
TaskStep(s) ==
  /\ pc[s] \notin {"new", "refused"}
  /\ \/ pc'[s] # pc[s]
     \/ transferred'[s] # transferred[s]
     \/ (s \in ended') # (s \in ended)

\* C18: a step of the task or progress stream of one upload changes no record
\* stored under another key, leaves the record of every other upload as it
\* was, and creates or deletes no temp file but its own.
C18_TaskTouchesOnlyItsOwn ==
  [][\A s \in Uploads :
       TaskStep(s) =>
         /\ DOMAIN uploadProgressMap' = DOMAIN uploadProgressMap
         /\ \A k \in DOMAIN uploadProgressMap :
              k # uploadId[s] => uploadProgressMap'[k] = uploadProgressMap[k]
         /\ \A u \in Uploads \ {s} :
              /\ Accepted(u) =>
                   uploadProgressMap'[uploadId[u]] = uploadProgressMap[uploadId[u]]
              /\ (u \in tempFiles') = (u \in tempFiles)]_vars

\* ------------------------------------------------ claims on the bulk path

\* the files of the bulk request whose transfer the gateway completed, and
\* those whose token or transfer it refused
GatewayAccepted == {f \in 1..bulkFiles : bulkSettled[f] \in DriveFileIds}
GatewayRefused == {f \in 1..bulkFiles : bulkSettled[f] \in ErrorMessages}

\* C11: an authenticated bulk submission of N >= 1 files is answered, whatever
\* the gateway did with each file, by an aggregate in which successful holds
\* the files the gateway took, failed those it refused, the two lengths add
\* up to N, and success is true exactly when failed is empty; an
\* authenticated bulk submission of no file is answered 400 without aggregate.
C11_BulkCounts ==
  /\ bulkPc = "responded" =>
       /\ bulkFiles >= 1
       /\ bulkResponse.code = 200
       /\ bulkResponse.aggregate
       /\ Len(bulkResponse.successful) = Cardinality(GatewayAccepted)
       /\ Len(bulkResponse.failed) = Cardinality(GatewayRefused)
       /\ Len(bulkResponse.successful) + Len(bulkResponse.failed) = bulkFiles
       /\ bulkResponse.success <=> (bulkResponse.failed = <<>>)
  /\ bulkPc = "running" => bulkFiles >= 1 /\ bulkResponse = NoBulkResponse
  /\ bulkPc = "refused" /\ bulkResponse.code # 401 =>
       /\ bulkFiles = 0
       /\ bulkResponse.code = 400
       /\ ~bulkResponse.aggregate
       /\ bulkResponse.successful = <<>> /\ bulkResponse.failed = <<>>
  /\ bulkPc = "refused" /\ bulkResponse.code = 401 => ~bulkResponse.aggregate

C11_Witness ==
  /\ bulkPc = "responded"
  /\ bulkFiles = 3
  /\ Len(bulkResponse.successful) = 2
  /\ Len(bulkResponse.failed) = 1
  /\ ~bulkResponse.success

\* a step in which the token request or the transfer of file f fails
FailingStep(f) ==
  /\ filePc[f] \in {"token", "creating"}
  /\ bulkSettled'[f] \in ErrorMessages

\* C12: the files of a bulk request do not affect each other. The step in
\* which one file fails changes nothing of a sibling (its position, result,
\* gateway call, temp file and unlink count); a sibling still waiting for its
\* token can always go on to its gateway call; a finished file succeeded
\* exactly when the gateway took it, and its temp file is gone, deleted once.
C12_FilesIndependent ==
  [][/\ \A f \in BulkFiles :
          FailingStep(f) =>
            \A g \in BulkFiles \ {f} :
              /\ filePc'[g] = filePc[g]
              /\ results'[g] = results[g]
              /\ bulkSettled'[g] = bulkSettled[g]
              /\ bulkCreateCalls'[g] = bulkCreateCalls[g]
              /\ bulkUnlinkCalls'[g] = bulkUnlinkCalls[g]
              /\ (g \in bulkTemp') = (g \in bulkTemp)
     /\ \A g \in BulkFiles :
          /\ filePc'[g] = "token" /\ running' = 0 => (ENABLED BulkTokenOk(g))'
          /\ filePc'[g] \in {"ok", "failed", "thrown"} =>
               /\ (filePc'[g] = "ok") = (bulkSettled'[g] \in DriveFileIds)
               /\ results'[g].success = (bulkSettled'[g] \in DriveFileIds)
               /\ bulkCreateCalls'[g] <= 1
               /\ filePc'[g] = "ok" => bulkCreateCalls'[g] = 1
               /\ g \notin bulkTemp'
               /\ bulkUnlinkCalls'[g] = 1]_vars

\* one file failed while its siblings were under way, and both siblings
\* went on to succeed
C12_Witness ==
  /\ bulkFiles = 3
  /\ bulkPc = "responded"
  /\ \E f \in BulkFiles :
       /\ filePc[f] = "failed"
       /\ \A g \in BulkFiles \ {f} :
            /\ filePc[g] = "ok"
            /\ bulkSettled[g] \in DriveFileIds
            /\ bulkCreateCalls[g] = 1
            /\ bulkUnlinkCalls[g] = 1
  /\ bulkTemp = {}

\* C19: no step of POST /upload-multiple creates, updates or removes a record
\* of the progress store, and when its response is sent every file of the
\* request has finished, with success or with failure.
C19_BulkLeavesStoreAlone ==
  [][/\ bulkVars' # bulkVars => uploadProgressMap' = uploadProgressMap
     /\ bulkResponse' # bulkResponse /\ bulkPc # "new" =>
          \A f \in 1..bulkFiles :
            /\ filePc'[f] \in {"ok", "failed"}
            /\ results'[f] # NoResult]_vars

\* the bulk request was answered while the store held a record in progress
C19_Witness ==
  /\ bulkPc = "responded"
  /\ bulkFiles = MaxBulkFiles
  /\ bulkResponse.aggregate
  /\ \E s \in SideUploads :
       /\ Accepted(s)
       /\ Record(s).status = "in_progress"

\* C20: when the answer to an authenticated bulk submission of N files is
\* sent, none of the N temp files exists and each was unlinked exactly once,
\* whatever files succeeded or failed.
C20_BulkTempFilesDeletedOnce ==
  bulkPc = "responded" =>
    /\ bulkTemp = {}
    /\ \A f \in 1..bulkFiles : bulkUnlinkCalls[f] = 1

\* a mix: a file that failed at the token, one that failed in the transfer
\* and one that succeeded
C20_Witness ==
  /\ bulkPc = "responded"
  /\ bulkFiles = 3
  /\ bulkTemp = {}
  /\ \E f, g, h \in BulkFiles :
       /\ filePc[f] = "failed" /\ bulkCreateCalls[f] = 0
       /\ filePc[g] = "failed" /\ bulkCreateCalls[g] = 1
       /\ filePc[h] = "ok"
       /\ bulkUnlinkCalls[f] = 1 /\ bulkUnlinkCalls[g] = 1 /\ bulkUnlinkCalls[h] = 1

\* --------------------------------------------- claims on progress and polls

\* Math.floor of the non-negative quotient num / den
MathFloor(num, den) == num \div den

\* a step in which the progress stream of upload s saw a chunk or was flushed
StreamStep(s) ==
  /\ Accepted(s)
  /\ file[s].size > 0
  /\ \/ transferred'[s] # transferred[s]
     \/ (s \in ended') # (s \in ended)

\* C21: the progress a callback of the progress stream writes to the record is
\* floor(bytesSeen / N * 100), for the bytes seen so far and the length N > 0
\* of the stream (a step of the stream without an event leaves the value).
C21_ProgressIsFloor ==
  [][\A s \in Uploads :
       StreamStep(s) =>
         \/ uploadProgressMap'[uploadId[s]].progress =
              uploadProgressMap[uploadId[s]].progress
         \/ uploadProgressMap'[uploadId[s]].progress =
              MathFloor(transferred'[s] * 100, file[s].size)]_vars

\* C22: in every reachable state the progress of every record of the store
\* is an integer from 0 to 100.
C22_ProgressInRange ==
  \A k \in DOMAIN uploadProgressMap :
    /\ uploadProgressMap[k].progress \in Int
    /\ 0 <= uploadProgressMap[k].progress
    /\ uploadProgressMap[k].progress <= 100

\* records at both ends and in between: one upload done at 100, one failed
\* with a rounded value strictly inside the range
C22_Witness ==
  \E s, u \in Uploads :
    /\ Accepted(s) /\ Accepted(u)
    /\ uploadId[s] # uploadId[u]
    /\ Record(s).status = "done" /\ Record(s).progress = 100
    /\ Record(u).status = "error"
    /\ Record(u).progress = MathRound(2 * 100, 3)
    /\ transferred[u] = 2

\* C23: the record is created, the response sent and in_progress written in
\* one turn of the submit handler: a record has status pending only inside
\* that turn, whose next step is the start of the task, so no poll, served
\* in a turn of its own, answers pending; pending is what the submit
\* response says.
C23_PendingNeverPolled ==
  /\ \A k \in DOMAIN uploadProgressMap :
       uploadProgressMap[k].status = "pending" =>
         /\ running \in Uploads
         /\ pc[running] = "accepted"
         /\ uploadId[running] = k
  /\ running # 0 /\ pc[running] = "accepted" => ~ENABLED (\E key \in PollKeys : Poll(key))
  /\ lastPoll.status # "pending"
  /\ \A s \in Uploads : Accepted(s) => response[s].status = "pending"

\* the first poll after the submit response, before any byte was transferred,
\* already answers in_progress although the response said pending
C23_Witness ==
  \E s \in Uploads :
    /\ Accepted(s)
    /\ response[s].status = "pending"
    /\ pc[s] = "awaiting"
    /\ transferred[s] = 0
    /\ lastPoll.key = uploadId[s]
    /\ lastPoll.code = 200
    /\ lastPoll.status = "in_progress"

====
